---- MODULE Spec2Model ----
(***************************************************************************)
(* Campus Feedback Sentiment Dashboard (src/app.py): a Streamlit script    *)
(* that is re-run from top to bottom on every user interaction of a        *)
(* browser session.  The state is the per-session st.session_state         *)
(* (feedback_data, admin_authenticated, the radio widget's value) and the  *)
(* shared Google spreadsheet; one action per user interaction, each the    *)
(* whole script run it triggers.                                           *)
(*                                                                         *)
(* Python strings are sequences of one-character strings, so that strip(), *)
(* str(), int() and float() are computed rather than assumed.  Python      *)
(* values are tagged with their type: "7" and 7 are different values.      *)
(***************************************************************************)
EXTENDS Integers, Sequences, FiniteSets, TLC

\* ------------------------------------------------------------------ bounds
\* Rows the spreadsheet may hold below its header row.
MaxRows == 2
\* The browser sessions.
Sessions == {"s1", "s2"}

\* ------------------------------------------------------- Python strings
Digits == <<"0", "1", "2", "3", "4", "5", "6", "7", "8", "9">>

IsDigit(c) == \E d \in 1..10 : Digits[d] = c

DigitVal(c) == (CHOOSE d \in 1..10 : Digits[d] = c) - 1

IsSpace(c) == c = " "

RECURSIVE lstrip(_)
lstrip(s) == IF s # <<>> /\ IsSpace(Head(s)) THEN lstrip(Tail(s)) ELSE s

RECURSIVE rstrip(_)
rstrip(s) ==
    IF s # <<>> /\ IsSpace(s[Len(s)]) THEN rstrip(SubSeq(s, 1, Len(s) - 1)) ELSE s

\* str.strip(): leading and trailing whitespace removed.
strip(s) == rstrip(lstrip(s))

AllDigits(s) == s # <<>> /\ \A i \in 1..Len(s) : IsDigit(s[i])

RECURSIVE DigitsToNat(_)
DigitsToNat(s) ==
    IF s = <<>> THEN 0
    ELSE 10 * DigitsToNat(SubSeq(s, 1, Len(s) - 1)) + DigitVal(s[Len(s)])

RECURSIVE NatToDigits(_)
NatToDigits(n) ==
    IF n < 10 THEN <<Digits[n + 1]>>
    ELSE NatToDigits(n \div 10) \o <<Digits[(n % 10) + 1]>>

RECURSIVE DropTrailingZeros(_)
DropTrailingZeros(s) ==
    IF s # <<>> /\ s[Len(s)] = "0"
    THEN DropTrailingZeros(SubSeq(s, 1, Len(s) - 1))
    ELSE s

IndexOf(s, c) ==
    IF \E i \in 1..Len(s) : s[i] = c
    THEN CHOOSE i \in 1..Len(s) : s[i] = c /\ \A j \in 1..(i - 1) : s[j] # c
    ELSE 0

\* -------------------------------------------------------- Python values
StrVal(s) == [t |-> "str", v |-> s]
IntVal(n) == [t |-> "int", v |-> n]
\* A float that has a finite decimal expansion: its sign, its integer part and
\* its fraction digits without trailing zeros (70.0 is <<1, 70, <<>>>>).
FloatVal(sign, i, f) ==
    LET g == DropTrailingZeros(f)
    IN  [t |-> "float", v |-> <<IF i = 0 /\ g = <<>> THEN 1 ELSE sign, i, g>>]

\* A non-negative float given in tenths.
FloatOfTenths(n) == FloatVal(1, n \div 10, <<Digits[(n % 10) + 1]>>)

\* str(x) of a non-negative float: "70.0", "99.9".
PyStr(x) ==
    NatToDigits(x.v[2]) \o <<".">> \o (IF x.v[3] = <<>> THEN <<"0">> ELSE x.v[3])

\* int(s) succeeds: optional surrounding whitespace, optional sign, digits.
Unsigned(s) == IF s # <<>> /\ Head(s) \in {"+", "-"} THEN Tail(s) ELSE s
IsNegative(s) == s # <<>> /\ Head(s) = "-"

IsIntLiteral(s) == AllDigits(Unsigned(strip(s)))

IntOf(s) ==
    LET n == DigitsToNat(Unsigned(strip(s)))
    IN  IF IsNegative(strip(s)) THEN 0 - n ELSE n

\* float(s) succeeds on a decimal literal: digits "." digits, one side may be
\* empty.  (Exponents, "inf" and "nan" are not in the alphabet used here.)
IsFloatLiteral(s) ==
    LET u == Unsigned(strip(s))
        p == IndexOf(u, ".")
        a == SubSeq(u, 1, p - 1)
        b == SubSeq(u, p + 1, Len(u))
    IN  /\ p > 0
        /\ a \o b # <<>>
        /\ \A i \in 1..Len(a) : IsDigit(a[i])
        /\ \A i \in 1..Len(b) : IsDigit(b[i])

FloatOf(s) ==
    LET u == Unsigned(strip(s))
        p == IndexOf(u, ".")
    IN  FloatVal(IF IsNegative(strip(s)) THEN 0 - 1 ELSE 1,
                 DigitsToNat(SubSeq(u, 1, p - 1)), SubSeq(u, p + 1, Len(u)))

\* ------------------------------------------------------- program strings
Anonymous == <<"A", "n", "o", "n", "y", "m", "o", "u", "s">>
Positive == <<"P", "o", "s", "i", "t", "i", "v", "e">>
Neutral == <<"N", "e", "u", "t", "r", "a", "l">>
Negative == <<"N", "e", "g", "a", "t", "i", "v", "e">>
Classroom == <<"C", "l", "a", "s", "s", "r", "o", "o", "m">>
Food == <<"F", "o", "o", "d">>

\* The three sentiments the filter and the metrics name.
Sentiments == {Positive, Neutral, Negative}

\* What users put into the form (name, category, feedback text): a plain
\* submission, one whose name and text read as numbers, a blank text and an
\* empty one.
Forms ==
    {[name |-> <<>>, category |-> Classroom, feedback_text |-> <<"o", "k">>],
     [name |-> <<"7">>, category |-> Food, feedback_text |-> <<"4", "2", " ">>],
     [name |-> <<"7">>, category |-> Food, feedback_text |-> <<" ">>],
     [name |-> <<>>, category |-> Classroom, feedback_text |-> <<>>]}

\* The categories the admin's category filter can offer.
CategoryChoices == {f.category : f \in Forms}

\* What the sentiment filter of the admin table is set to.
SentimentFilters == {Sentiments, {Positive}, {}}

\* What datetime.now() reads, in seconds after 10:00:00.
Times == {0, 61}

\* The reading a single session's submissions are stamped with.
TimesSingle == {61}

\* What users type into "Admin Password".
Passwords == {"admin123", "admin", ""}

\* The classifier's score, in ten-thousandths (7000 is 0.70).
Scores == {6999, 7000}

\* The outcomes of sentiment_analyzer(...)[0]: a result, or an exception.
Raised == [raised |-> TRUE, label |-> "", score |-> 0]

ClassifierResults ==
    {[raised |-> FALSE, label |-> l, score |-> c] :
        l \in {"POSITIVE", "NEGATIVE"}, c \in Scores} \cup {Raised}

\* The outcomes of a call to the spreadsheet: it succeeds, it raises before the
\* request takes effect, or (append only) it raises after the row was written.
LoadOutcomes == {"ok", "raise"}
SaveOutcomes == {"ok", "raise", "raise_after_write"}

\* ---------------------------------------------------------------- state
VARIABLES
    sheet,                \* the spreadsheet's rows below the header row
    started,              \* per session: the script has run once
    feedback_data,        \* per session: st.session_state.feedback_data
    admin_authenticated,  \* per session: st.session_state.admin_authenticated
    mode,                 \* per session: the value of the "Select View" radio
    last,                 \* what the most recent script run did and rendered
    snapshot,             \* history: rows the session loaded when it started
    own                   \* history: sheet positions of the session's saved rows

vars ==
    <<sheet, started, feedback_data, admin_authenticated, mode, last,
      snapshot, own>>

\* ------------------------------------------------------------ the script
\* The confidence below which the sentiment is overridden, in ten-thousandths.
Threshold == 7000

\* Sentiment with the comparison of line 156 made inclusive.
Sentiment_Inclusive(result) ==
    LET sentiment == IF result.label = "POSITIVE" THEN Positive ELSE Negative
    IN  IF result.score <= Threshold THEN Neutral ELSE sentiment

\* Sentiment with the override of line 157 writing a label of its own.
Sentiment_Uncertain(result) ==
    LET sentiment == IF result.label = "POSITIVE" THEN Positive ELSE Negative
    IN  IF result.score < Threshold
        THEN <<"U", "n", "c", "e", "r", "t", "a", "i", "n">>
        ELSE sentiment

\* Lines 148-157: the stored sentiment of a classifier result.
Sentiment(result) ==
    LET sentiment == IF result.label = "POSITIVE" THEN Positive ELSE Negative
    IN  IF result.score < Threshold THEN Neutral ELSE sentiment

\* round(confidence * 100, 1): the score in tenths of a percent, half to even.
Round1(score) ==
    LET q == score \div 10
        r == score % 10
    IN  IF r > 5 \/ (r = 5 /\ q % 2 = 1) THEN q + 1 ELSE q

Pad2(n) == IF n < 10 THEN <<"0">> \o NatToDigits(n) ELSE NatToDigits(n)

\* datetime.now().strftime("%Y-%m-%d %H:%M:%S") at second `now` of the run.
strftime(now) ==
    <<"2", "0", "2", "6", "-", "1", "1", "-", "0", "5", " ">>
        \o Pad2(10) \o <<":">> \o Pad2(now \div 60) \o <<":">> \o Pad2(now % 60)

\* Lines 159-166.
feedback_entry(name, category, feedback_text, result, now) ==
    [name |-> StrVal(IF name # <<>> THEN name ELSE Anonymous),
     category |-> StrVal(category),
     feedback |-> StrVal(feedback_text),
     sentiment |-> StrVal(Sentiment(result)),
     confidence |-> FloatOfTenths(Round1(result.score)),
     timestamp |-> StrVal(strftime(now))]

\* Lines 73-80: the six cells of the row that is appended.
Row(entry) ==
    <<entry.name.v, entry.category.v, entry.feedback.v, entry.sentiment.v,
      PyStr(entry.confidence), entry.timestamp.v>>

\* gspread's numericise, which get_all_records applies to every cell.
numericise(value) ==
    IF \E i \in 1..Len(value) : value[i] = "_" THEN StrVal(value)
    ELSE IF IsIntLiteral(value) THEN IntVal(IntOf(value))
    ELSE IF IsFloatLiteral(value) THEN FloatVal(FloatOf(value).v[1],
                                                FloatOf(value).v[2],
                                                FloatOf(value).v[3])
    ELSE StrVal(value)

\* One row as get_all_records returns it, keyed by the header row.
Record(row) ==
    [name |-> numericise(row[1]),
     category |-> numericise(row[2]),
     feedback |-> numericise(row[3]),
     sentiment |-> numericise(row[4]),
     confidence |-> numericise(row[5]),
     timestamp |-> numericise(row[6])]

get_all_records(rows) == [i \in 1..Len(rows) |-> Record(rows[i])]

\* load_data_from_sheets returning what it has when the call raised.
load_data_from_sheets_Partial(rows, outcome) == get_all_records(rows)

\* Lines 60-67.
load_data_from_sheets(rows, outcome) ==
    IF outcome = "ok" THEN get_all_records(rows) ELSE <<>>

\* save_data_to_sheets returning True from its except branch as well.
save_data_to_sheets_AlwaysTrue(outcome) == TRUE

\* Lines 70-85: the value save_data_to_sheets returns.
save_data_to_sheets(outcome) == outcome = "ok"

\* Lines 70-85: the spreadsheet after the call.
SheetAfterSave(rows, entry, outcome) ==
    IF outcome \in {"ok", "raise_after_write"} THEN Append(rows, Row(entry))
    ELSE rows

\* HandlerPath testing the text without strip().
HandlerPath_NoStrip(feedback_text, result) ==
    IF feedback_text = <<>> THEN "warning"
    ELSE IF result.raised THEN "exception"
    ELSE "save"

\* HandlerPath with the classifier's exception swallowed.
HandlerPath_Swallow(feedback_text, result) ==
    IF strip(feedback_text) = <<>> THEN "warning" ELSE "save"

\* Lines 143-174: the branch the submit handler takes.
HandlerPath(feedback_text, result) ==
    IF strip(feedback_text) = <<>> THEN "warning"
    ELSE IF result.raised THEN "exception"
    ELSE "save"

\* DataAfterSave appending whatever the save returned.
DataAfterSave_Always(data, entry, saved) == Append(data, entry)

\* DataAfterSave putting the new record first.
DataAfterSave_Prepend(data, entry, saved) ==
    IF saved THEN <<entry>> \o data ELSE data

\* Lines 168-172: the list after the handler's save.
DataAfterSave(data, entry, saved) ==
    IF saved THEN Append(data, entry) ELSE data

\* Lines 184-195 and 246-258: sentiment_counts.get(k, 0).
sentiment_counts(data, k) ==
    Cardinality({i \in 1..Len(data) : data[i].sentiment = StrVal(k)})

\* Lines 125, 179, 233, 236: what the script renders below the title.
Body(m, auth, data) ==
    IF m = "Student View"
    THEN IF Len(data) > 0 THEN "student_overview" ELSE "student_no_data"
    ELSE IF auth
    THEN IF Len(data) > 0 THEN "admin_dashboard" ELSE "admin_no_data"
    ELSE "login_form"

\* The st.metric values on the page: none without data.
Metrics(m, auth, data) ==
    LET counts == [k \in Sentiments |-> sentiment_counts(data, k)]
    IN  IF Body(m, auth, data) = "student_overview"
        THEN [shown |-> TRUE, total |-> 0 - 1, counts |-> counts]
        ELSE IF Body(m, auth, data) = "admin_dashboard"
        THEN [shown |-> TRUE, total |-> Len(data), counts |-> counts]
        ELSE [shown |-> FALSE, total |-> 0 - 1, counts |-> [k \in Sentiments |-> 0 - 1]]

\* Line 332: the rows of the admin table under the two filters.
Filtered(data, filter_sentiment, filter_category) ==
    {i \in 1..Len(data) :
        /\ \E k \in filter_sentiment : data[i].sentiment = StrVal(k)
        /\ \E c \in filter_category : data[i].category = StrVal(c)}

\* Lines 98-118: what the sidebar shows besides the radio.
Sidebar(m, auth, login_failed) ==
    IF m = "Admin View" /\ auth THEN {"Logged in as Admin"}
    ELSE IF login_failed THEN {"Incorrect password!"}
    ELSE {}

\* The classifier was not called.
NoResult == [raised |-> FALSE, label |-> "", score |-> 0]

\* What a script run was given and what it called: nothing, by default.
NoCalls ==
    [admin_pass |-> "", feedback_text |-> <<>>, result |-> NoResult,
     classifier |-> 0, saved |-> "not called", rows |-> 0, loads |-> 0]

\* One complete script run: what it called and what it left on the page.
Run(s, op, calls, messages, showing, m, auth, data) ==
    [session |-> s,
     op |-> op,
     admin_pass |-> calls.admin_pass,
     feedback_text |-> calls.feedback_text,
     result |-> calls.result,
     classifier_calls |-> calls.classifier,
     saved |-> calls.saved,
     rows_appended |-> calls.rows,
     loads |-> calls.loads,
     messages |-> messages
        \cup Sidebar(m, auth, "Incorrect password!" \in messages),
     body |-> Body(m, auth, data),
     metrics |-> Metrics(m, auth, data),
     showing |-> showing]

\* A run stopped by an uncaught exception: nothing below the call is rendered.
Aborted(s, op, calls) ==
    [Run(s, op, calls, {"exception"}, 0 - 1, "Admin View", FALSE, <<>>)
        EXCEPT !.body = "aborted"]

NoRun ==
    [Run("", "none", NoCalls, {}, 0 - 1, "Admin View", FALSE, <<>>)
        EXCEPT !.body = "none"]

\* Rows that earlier sessions of the application left in the spreadsheet.
InitialSheets ==
    {<<>>,
     <<Row(feedback_entry(<<"7">>, Food, <<"4", "2", " ">>,
                          [raised |-> FALSE, label |-> "POSITIVE", score |-> 7000],
                          0))>>}

Init ==
    /\ sheet \in InitialSheets
    /\ started = [s \in Sessions |-> FALSE]
    /\ feedback_data = [s \in Sessions |-> <<>>]
    /\ admin_authenticated = [s \in Sessions |-> FALSE]
    /\ mode = [s \in Sessions |-> "Student View"]
    /\ last = NoRun
    /\ snapshot = [s \in Sessions |-> 0]
    /\ own = [s \in Sessions |-> <<>>]

\* Lines 88-92 and the first render: a browser opens the page.
NewSession(s, outcome) ==
    /\ ~started[s]
    /\ started' = [started EXCEPT ![s] = TRUE]
    /\ feedback_data' =
           [feedback_data EXCEPT ![s] = load_data_from_sheets(sheet, outcome)]
    /\ admin_authenticated' = [admin_authenticated EXCEPT ![s] = FALSE]
    /\ mode' = [mode EXCEPT ![s] = "Student View"]
    /\ snapshot' = [snapshot EXCEPT ![s] = Len(feedback_data'[s])]
    /\ last' = Run(s, "start", [NoCalls EXCEPT !.loads = 1],
                   IF outcome = "ok" THEN {} ELSE {"Error loading data"}, 0 - 1,
                   "Student View", FALSE, load_data_from_sheets(sheet, outcome))
    /\ UNCHANGED <<sheet, own>>

\* Line 103: the user picks the other view in the sidebar.
SelectView(s, m) ==
    /\ started[s]
    /\ m # mode[s]
    /\ mode' = [mode EXCEPT ![s] = m]
    /\ last' = Run(s, "select", NoCalls, {},
                   IF Body(m, admin_authenticated[s], feedback_data[s])
                          = "admin_dashboard"
                   THEN Len(feedback_data[s]) ELSE 0 - 1,
                   m, admin_authenticated[s], feedback_data[s])
    /\ UNCHANGED <<sheet, started, feedback_data, admin_authenticated,
                   snapshot, own>>

\* PasswordAccepted comparing a prefix only.
PasswordAccepted_Prefix(admin_pass) == admin_pass \in {"", "admin", "admin123"}

\* Line 109.
PasswordAccepted(admin_pass) == admin_pass = "admin123"

\* Lines 105-113: the Login button.  After st.rerun() the radio is built with
\* index 1, a new widget whose value is "Admin View".
Login(s, admin_pass) ==
    /\ started[s]
    /\ mode[s] = "Admin View"
    /\ ~admin_authenticated[s]
    /\ admin_authenticated' =
           [admin_authenticated EXCEPT ![s] = PasswordAccepted(admin_pass)]
    /\ last' = Run(s, "login", [NoCalls EXCEPT !.admin_pass = admin_pass],
                   IF PasswordAccepted(admin_pass) THEN {}
                   ELSE {"Incorrect password!"},
                   IF PasswordAccepted(admin_pass) /\ Len(feedback_data[s]) > 0
                   THEN Len(feedback_data[s]) ELSE 0 - 1,
                   mode[s], PasswordAccepted(admin_pass), feedback_data[s])
    /\ UNCHANGED <<sheet, started, feedback_data, mode, snapshot, own>>

\* Lines 114-118: the Logout button.  After st.rerun() the radio is built with
\* index 0, a new widget whose value is "Student View".
Logout(s) ==
    /\ started[s]
    /\ mode[s] = "Admin View"
    /\ admin_authenticated[s]
    /\ admin_authenticated' = [admin_authenticated EXCEPT ![s] = FALSE]
    /\ mode' = [mode EXCEPT ![s] = "Student View"]
    /\ last' = Run(s, "logout", NoCalls, {}, 0 - 1,
                   "Student View", FALSE, feedback_data[s])
    /\ UNCHANGED <<sheet, started, feedback_data, snapshot, own>>

\* Lines 132-174: the Submit Feedback button of the form.  The classifier is
\* given feedback_text[:512]; what it answers is `result` whatever it is given.
Submit(s, name, category, feedback_text, result, now, outcome) ==
    /\ started[s]
    /\ mode[s] = "Student View"
    /\ LET path == HandlerPath(feedback_text, result)
           entry == feedback_entry(name, category, feedback_text, result, now)
           saved == path = "save" /\ save_data_to_sheets(outcome)
           rows == IF path = "save" THEN SheetAfterSave(sheet, entry, outcome)
                   ELSE sheet
           calls == [NoCalls EXCEPT
                        !.feedback_text = feedback_text,
                        !.classifier = IF path = "warning" THEN 0 ELSE 1,
                        !.result = IF path = "warning" THEN NoResult ELSE result,
                        !.saved = IF path # "save" THEN "not called"
                                  ELSE IF saved THEN "True" ELSE "False",
                        !.rows = Len(rows) - Len(sheet)]
       IN  /\ Len(rows) <= MaxRows
           /\ path # "save" => outcome = "ok"
           /\ sheet' = rows
           /\ feedback_data' =
                  [feedback_data EXCEPT ![s] = DataAfterSave(@, entry, saved)]
           /\ own' = [own EXCEPT ![s] =
                         IF saved THEN Append(@, Len(rows)) ELSE @]
           /\ UNCHANGED <<started, admin_authenticated, mode, snapshot>>
           /\ last' =
                  IF path = "exception" THEN Aborted(s, "submit", calls)
                  ELSE Run(s, "submit", calls,
                           IF path = "warning"
                           THEN {"Please enter some feedback before submitting!"}
                           ELSE IF saved
                           THEN {"Thank you! Your feedback has been recorded."}
                           ELSE {"Error saving to Google Sheets",
                                 "Failed to save feedback. Please try again."},
                           0 - 1, mode[s], admin_authenticated[s],
                           DataAfterSave(feedback_data[s], entry, saved))

\* Lines 319-349: a filter, the sort box or the download button of the admin
\* dashboard; the run renders the table under the widgets' current values.
AdminWidget(s, widget, filter_sentiment, filter_category) ==
    /\ started[s]
    /\ Body(mode[s], admin_authenticated[s], feedback_data[s]) = "admin_dashboard"
    /\ last' = Run(s, widget, NoCalls, {},
                   Cardinality(Filtered(feedback_data[s], filter_sentiment,
                                        filter_category)),
                   mode[s], admin_authenticated[s], feedback_data[s])
    /\ UNCHANGED <<sheet, started, feedback_data, admin_authenticated,
                   mode, snapshot, own>>

\* The session of the single-session specification.
SingleSession == {"s1"}

\* One browser session, every input.
Next ==
    \/ \E s \in SingleSession, outcome \in LoadOutcomes : NewSession(s, outcome)
    \/ \E s \in SingleSession, m \in {"Student View", "Admin View"} : SelectView(s, m)
    \/ \E s \in SingleSession, admin_pass \in Passwords : Login(s, admin_pass)
    \/ \E s \in SingleSession : Logout(s)
    \/ \E s \in SingleSession, form \in Forms, result \in ClassifierResults,
          now \in TimesSingle, outcome \in SaveOutcomes :
            Submit(s, form.name, form.category, form.feedback_text, result,
                   now, outcome)
    \/ \E s \in SingleSession, widget \in {"filter", "sort", "export"},
          filter_sentiment \in SentimentFilters :
            AdminWidget(s, widget, filter_sentiment, CategoryChoices)

Spec == Init /\ [][Next]_vars

\* Several browser sessions on the one spreadsheet, fewer inputs.
FormsShared == {f \in Forms : f.name = <<>>}

ResultsShared ==
    {r \in ClassifierResults : r.raised \/ (r.label = "POSITIVE" /\ r.score = 7000)}

NextShared ==
    \/ \E s \in Sessions, outcome \in LoadOutcomes : NewSession(s, outcome)
    \/ \E s \in Sessions, m \in {"Student View", "Admin View"} : SelectView(s, m)
    \/ \E s \in Sessions : Login(s, "admin123")
    \/ \E s \in Sessions : Logout(s)
    \/ \E s \in Sessions, form \in FormsShared, result \in ResultsShared,
          now \in Times, outcome \in SaveOutcomes :
            Submit(s, form.name, form.category, form.feedback_text, result,
                   now, outcome)
    \/ \E s \in Sessions :
            AdminWidget(s, "export", Sentiments, CategoryChoices)

\* The sessions share a spreadsheet that starts empty.
InitShared == Init /\ sheet = <<>>

SpecShared == InitShared /\ [][NextShared]_vars

\* ------------------------------------------------------------ properties
SubmitRun(r) == r.op = "submit"

\* The record a successful submission put at the end of the session's list.
LastRecord(s) == feedback_data[s][Len(feedback_data[s])]

\* C1: a classifier result with confidence >= 0.70 is stored as Positive when
\* the model's label is POSITIVE and as Negative otherwise; one with
\* confidence < 0.70 is stored as Neutral whatever the label; every stored
\* sentiment, in the list or in the spreadsheet, is one of the three.
C1_ThresholdMapping ==
    /\ (SubmitRun(last) /\ last.classifier_calls = 1 /\ ~last.result.raised) =>
          LET expected ==
                  IF last.result.score >= 7000
                  THEN IF last.result.label = "POSITIVE" THEN Positive ELSE Negative
                  ELSE Neutral
          IN  /\ last.saved = "True" =>
                    LastRecord(last.session).sentiment = StrVal(expected)
              /\ last.rows_appended = 1 => sheet[Len(sheet)][4] = expected
    /\ \A s \in Sessions : \A i \in 1..Len(feedback_data[s]) :
          \E k \in Sentiments : feedback_data[s][i].sentiment = StrVal(k)
    /\ \A i \in 1..Len(sheet) : sheet[i][4] \in Sentiments

\* C1 witness: a POSITIVE result below the threshold was saved as Neutral.
C1_Witness ==
    /\ SubmitRun(last) /\ last.saved = "True"
    /\ last.result.label = "POSITIVE" /\ last.result.score = 6999
    /\ LastRecord(last.session).sentiment = StrVal(Neutral)

\* C2: when save_data_to_sheets returns False the session's list is left as it
\* was and the failure message is shown; the list changes only in a run whose
\* save returned True, and then by one record.
C2_FailedSaveDiscards ==
    [][/\ (SubmitRun(last') /\ last'.saved = "False") =>
            /\ feedback_data' = feedback_data
            /\ "Failed to save feedback. Please try again." \in last'.messages
       /\ \A s \in Sessions :
            (started[s] /\ feedback_data'[s] # feedback_data[s]) =>
                /\ SubmitRun(last') /\ last'.session = s /\ last'.saved = "True"
                /\ Len(feedback_data'[s]) = Len(feedback_data[s]) + 1]_vars

\* C2 witness: a save failed in a session that already holds a record.
C2_Witness ==
    /\ SubmitRun(last) /\ last.saved = "False"
    /\ Len(feedback_data[last.session]) > 0
    /\ "Error saving to Google Sheets" \in last.messages

\* C3: when the classifier raises, no row is appended, the list is unchanged,
\* the classifier was called once and the error is shown.
C3_ClassifierErrorStoresNothing ==
    [][(SubmitRun(last') /\ last'.result.raised) =>
            /\ sheet' = sheet
            /\ feedback_data' = feedback_data
            /\ last'.rows_appended = 0
            /\ last'.saved = "not called"
            /\ last'.classifier_calls = 1
            /\ "exception" \in last'.messages]_vars

\* C3 witness: the classifier raised on a text that is not blank.
C3_Witness ==
    /\ SubmitRun(last) /\ last.result.raised
    /\ last.feedback_text = <<"o", "k">>
    /\ last.body = "aborted"

\* C4: a submission whose text is empty or only whitespace is refused with the
\* warning: the classifier is not called, no row is written and the list is
\* unchanged.
C4_BlankTextRefused ==
    [][(/\ SubmitRun(last')
        /\ \A i \in 1..Len(last'.feedback_text) : last'.feedback_text[i] = " ") =>
            /\ last'.classifier_calls = 0
            /\ last'.rows_appended = 0
            /\ last'.saved = "not called"
            /\ sheet' = sheet
            /\ feedback_data' = feedback_data
            /\ "Please enter some feedback before submitting!" \in last'.messages]_vars

\* C4 witness: a text of one space was submitted and refused.
C4_Witness ==
    /\ SubmitRun(last)
    /\ last.feedback_text = <<" ">>
    /\ "Please enter some feedback before submitting!" \in last.messages

SumOfCounts(count) == count[Positive] + count[Neutral] + count[Negative]

C6_RoundTrip ==
    \A s \in Sessions : \A k \in 1..Len(own[s]) :
        get_all_records(sheet)[own[s][k]] = feedback_data[s][snapshot[s] + k]

\* C7: in a started session the list only ever changes by one record added at
\* its end by a submission that was saved; every other run, and every run of
\* another session, leaves it as it is.
C7_AppendOnly ==
    [][\A s \in Sessions : started[s] =>
          \/ feedback_data'[s] = feedback_data[s]
          \/ /\ Len(feedback_data'[s]) = Len(feedback_data[s]) + 1
             /\ SubSeq(feedback_data'[s], 1, Len(feedback_data[s]))
                    = feedback_data[s]
             /\ SubmitRun(last') /\ last'.session = s
             /\ last'.saved = "True"]_vars

\* C7 witness: the admin exports a list of two records, one of them submitted
\* in the session.
C7_Witness ==
    /\ last.op = "export"
    /\ Len(feedback_data[last.session]) = 2
    /\ Len(own[last.session]) >= 1

\* C8: when the load at session start fails the session holds the empty list,
\* the page shows the error and the no-data state and nothing is raised; only
\* the first run of a session loads.
C8_LoadFailure ==
    /\ [](last.op = "start" =>
            /\ last.loads = 1
            /\ "Error loading data" \in last.messages =>
                  /\ feedback_data[last.session] = <<>>
                  /\ last.body = "student_no_data"
                  /\ "exception" \notin last.messages)
    /\ [][(\E s \in Sessions : last'.session = s /\ started[s]) =>
             last'.loads = 0]_vars

\* C8 witness: the load failed while the spreadsheet held a row.
C8_Witness ==
    /\ last.op = "start"
    /\ "Error loading data" \in last.messages
    /\ Len(sheet) > 0

\* C9: a session starts anonymous; it becomes authenticated only by a Login
\* with the admin password; a Login with another password leaves it anonymous
\* and shows the error; the admin view is rendered only when authenticated.
C9_AdminLogin ==
    /\ [](/\ last.op = "start" => ~admin_authenticated[last.session]
          /\ last.body \in {"admin_dashboard", "admin_no_data"} =>
                admin_authenticated[last.session])
    /\ [][/\ \A s \in Sessions :
                (~admin_authenticated[s] /\ admin_authenticated'[s]) =>
                    /\ last'.op = "login" /\ last'.session = s
                    /\ last'.admin_pass = "admin123"
          /\ (last'.op = "login" /\ last'.admin_pass # "admin123") =>
                /\ ~admin_authenticated'[last'.session]
                /\ "Incorrect password!" \in last'.messages
                /\ last'.body = "login_form"]_vars

\* C9 witness: after a refused Login the session stays on the login form.
C9_Witness ==
    /\ last.op = "login"
    /\ last.admin_pass = "admin"
    /\ ~admin_authenticated[last.session]
    /\ Len(feedback_data[last.session]) > 0

\* C10: the list of a session is the rows it loaded at its start followed by
\* the rows it saved itself, in order; each of its records is a row of the
\* spreadsheet, and no row another session saved after the start is in it.
C10_SnapshotPlusOwn ==
    \A s \in Sessions : started[s] =>
        /\ Len(feedback_data[s]) = snapshot[s] + Len(own[s])
        /\ snapshot[s] <= Len(sheet)
        /\ \A i \in 1..snapshot[s] : feedback_data[s][i] = Record(sheet[i])
        /\ \A k \in 1..Len(own[s]) :
              /\ own[s][k] \in (snapshot[s] + 1)..Len(sheet)
              /\ Row(feedback_data[s][snapshot[s] + k]) = sheet[own[s][k]]
              /\ \A j \in 1..(k - 1) : own[s][j] < own[s][k]
              /\ \A t \in Sessions \ {s} : \A j \in 1..Len(own[t]) :
                    own[t][j] # own[s][k]

\* C10 witness: after a session started on the empty spreadsheet another
\* session saved a row, and then the first saved one of its own.
C10_Witness ==
    \E s \in Sessions, t \in Sessions :
        /\ s # t
        /\ started[s] /\ snapshot[s] = 0
        /\ own[t] = <<1>> /\ own[s] = <<2>>
        /\ Len(feedback_data[s]) = 1 /\ Len(sheet) = 2

====
